---- MODULE Spec2Model ----
(***************************************************************************)
(* The Streamlit dashboard of src/app.py as a state machine.               *)
(*                                                                         *)
(* One process (the Streamlit server) runs the script once per session and *)
(* rerun, each run in its own thread.  Shared by all runs: the Firebase    *)
(* app registry (firebase_admin._apps), the Firestore collection (written  *)
(* by an external producer) and the st.cache_data memo of                  *)
(* fetch_firestore_data.  A run is cut into steps at every access to that  *)
(* shared state.                                                           *)
(***************************************************************************)
EXTENDS Integers, Sequences, FiniteSets

\* ------------------------------------------------------------- bounds
\* Largest timestamp (in seconds) the producer writes.
MaxTs == 6
\* Largest number of documents in the collection.
MaxDocs == 2
\* Largest number of Refresh presses (cache clears).
MaxGen == 1

\* ---------------------------------------------------- program constants
\* timedelta(seconds=5): the look-back of the window.
W == 5
\* @st.cache_data(ttl=60): seconds a memo stays valid.
TTL == 60
\* Python's None as a timestamp value (a null timestamp field).  Firestore
\* orders null before every timestamp, as -1 orders before 0..MaxTs.
NoTs == -1
\* Python's None as a voltage value, and the one voltage reading.
NoV == "None"
Volt == "5.0V"

\* The sessions (browser tabs) of the one server process.
Sessions == {"s1", "s2"}

VARIABLES
    apps,       \* firebase_admin._apps is non-empty
    secrets,    \* st.secrets["firebase"]: "valid", "invalid" or "missing"
    initCalls,  \* number of firebase_admin.initialize_app calls so far
    coll,       \* the collection, in timestamp index order
    pc,         \* each session's position in its script run
    btn,        \* the run was started by a press of the Refresh button
    cobj,       \* the cache object the session's call works on
    latest,     \* local latest of the call (the top-1 query's result)
    docs,       \* local docs of the call (the range query's result)
    ranged,     \* the call issued the range query
    result,     \* the window the call returned
    outcome,    \* "none", "hit", "computed" or "error"
    srcErr,     \* a source query of the call failed
    chgDuring,  \* a record was appended between the call's two queries
    chgAfter,   \* a record was appended after the call's range query
    callEra,    \* number of Refresh presses before the call started
    live,       \* the cache object new calls get
    memo,       \* each cache object's memo for the key "voltage"
    refreshes,  \* number of Refresh presses so far
    prev        \* the last call that returned normally

vars == <<apps, secrets, initCalls, coll, pc, btn, cobj, latest, docs, ranged,
          result, outcome, srcErr, chgDuring, chgAfter, callEra, live, memo,
          refreshes, prev>>

fbVars == <<apps, secrets, initCalls>>
callVars == <<cobj, latest, docs, ranged, result, outcome, srcErr, chgDuring,
              chgAfter, callEra>>
cacheVars == <<live, memo, refreshes>>

\* ------------------------------------------------------------ the data
Timestamps == 0..MaxTs
\* Every document the producer may write.
Documents == [ts : Timestamps \cup {NoTs}, v : {Volt, NoV}]
\* The well-formed documents with the largest timestamp.
NewestDocuments == {d \in Documents : d.ts = MaxTs /\ d.v = Volt}

\* The producer's write: the index keeps the documents in timestamp order,
\* documents of equal timestamp in document id (here: insertion) order.
InsertDoc(c, d) ==
    LET k == Cardinality({i \in 1..Len(c) : c[i].ts <= d.ts})
    IN  SubSeq(c, 1, k) \o <<d>> \o SubSeq(c, k + 1, Len(c))

\* order_by("timestamp", DESCENDING).limit(1).stream()
Top1Desc(c) == IF c = <<>> THEN <<>> ELSE <<c[Len(c)]>>

\* where("timestamp", ">=", start).order_by("timestamp", ASCENDING).stream():
\* a range filter matches only fields holding a timestamp, never null.
RangeAsc(c, start) ==
    LET InRange(d) == d.ts # NoTs /\ d.ts >= start
    IN  SelectSeq(c, InRange)

\* The look-back one second short.
start_ts_short(latest_ts) == latest_ts - W + 1

start_ts(latest_ts) == latest_ts - W

\* The loop with "or" for "and": a row for every document with either field.
RECURSIVE FilterRowsEither(_)
FilterRowsEither(ds) ==
    IF ds = <<>> THEN <<>>
    ELSE LET d == Head(ds)
         IN  IF d.ts # NoTs \/ d.v # NoV
             THEN <<[timestamp |-> d.ts, voltage |-> d.v]>>
                  \o FilterRowsEither(Tail(ds))
             ELSE FilterRowsEither(Tail(ds))

\* The loop over docs: a row for every document with both fields.
RECURSIVE FilterRows(_)
FilterRows(ds) ==
    IF ds = <<>> THEN <<>>
    ELSE LET d == Head(ds)
         IN  IF d.ts # NoTs /\ d.v # NoV
             THEN <<[timestamp |-> d.ts, voltage |-> d.v]>> \o FilterRows(Tail(ds))
             ELSE FilterRows(Tail(ds))


\* ------------------------------------------------- Firebase initialization
\* firebase_admin.initialize_app(cred) for the default app, under the SDK's
\* registry lock: registers the app, or raises ValueError when the default
\* app already exists.
initialize_app(registered) ==
    IF registered THEN [raised |-> TRUE, apps |-> registered]
    ELSE [raised |-> FALSE, apps |-> TRUE]

\* ------------------------------------------------------------ the cache
\* st.cache_data keeps one cache object per decorated function; the object
\* holds the memo of each argument value (here the one key "voltage") and a
\* lock per key.  A memo is <<>> (none) or <<[win, age, era]>>: the window, the
\* seconds since it was stored, and the Refresh count when the call that
\* stored it started.
NoMemo == <<>>

\* A ttl=60 entry is dropped once 60 seconds have passed since it was stored.
Fresh(m) == m # NoMemo /\ m[1].age < TTL

\* A write that leaves the key without an entry when the frame is empty.
WriteResultSkipEmpty(m, g, win, era) ==
    IF win = <<>> THEN [m EXCEPT ![g] = NoMemo]
    ELSE [m EXCEPT ![g] = <<[win |-> win, age |-> 0, era |-> era]>>]

\* A write that renews an existing entry's time and keeps its old frame.
WriteResultKeepOld(m, g, win, era) ==
    IF m[g] # NoMemo THEN [m EXCEPT ![g] = <<[m[g][1] EXCEPT !.age = 0]>>]
    ELSE [m EXCEPT ![g] = <<[win |-> win, age |-> 0, era |-> era]>>]

\* cache.write_result on cache object g.
WriteResult(m, g, win, era) ==
    [m EXCEPT ![g] = <<[win |-> win, age |-> 0, era |-> era]>>]

\* A clear that leaves the cache object in place.
ClearNothing(l) == l

\* st.cache_data.clear(): the registry of cache objects is emptied, so the
\* next call creates a new, empty object with new locks.  A call in flight
\* keeps the object it started on.
ClearAll(l) == l + 1

\* The key lock of cache object g is held by a call that is computing on g.
LockHeld(g) == \E u \in Sessions : pc[u] \in {"top1", "range"} /\ cobj[u] = g

\* A cache object that is neither the live one nor held by a call in flight
\* is garbage: nothing reads its memo again.
InCall(p, c, g) == \E u \in Sessions : p[u] \in {"lock", "top1", "range"} /\ c[u] = g
Collect(m, l, p, c) ==
    [g \in 0..MaxGen |-> IF g = l \/ InCall(p, c, g) THEN m[g] ELSE NoMemo]

\* ------------------------------------------------ fetch_firestore_data
\* The tests after the top-1 query without "if not latest".
AfterTop1NoEmptyTest(l) ==
    IF l = <<>> THEN "range"
    ELSE IF l[1].ts = NoTs THEN "empty" ELSE "range"

\* After the top-1 query: no record, or a latest record whose timestamp is
\* None, returns the empty frame; otherwise the range query follows.
AfterTop1(l) ==
    IF l = <<>> THEN "empty"
    ELSE IF l[1].ts = NoTs THEN "empty" ELSE "range"

\* A handler that turns the exception into an empty frame.
OnSourceErrorSwallowed == "empty"

\* A query that raises: nothing catches it in fetch_firestore_data nor at the
\* call on the Home page, so the script run ends with the exception.
OnSourceError == "raise"

\* ------------------------------------------------------------ the state
NoCall(s) ==
    /\ cobj' = [cobj EXCEPT ![s] = 0]
    /\ latest' = [latest EXCEPT ![s] = <<>>]
    /\ docs' = [docs EXCEPT ![s] = <<>>]
    /\ ranged' = [ranged EXCEPT ![s] = FALSE]
    /\ result' = [result EXCEPT ![s] = <<>>]
    /\ outcome' = [outcome EXCEPT ![s] = "none"]
    /\ srcErr' = [srcErr EXCEPT ![s] = FALSE]
    /\ chgDuring' = [chgDuring EXCEPT ![s] = FALSE]
    /\ chgAfter' = [chgAfter EXCEPT ![s] = FALSE]
    /\ callEra' = [callEra EXCEPT ![s] = 0]

Init ==
    /\ apps = FALSE
    /\ secrets \in {"valid", "invalid", "missing"}
    /\ initCalls = 0
    /\ coll = <<>>
    /\ pc = [s \in Sessions |-> "idle"]
    /\ btn = [s \in Sessions |-> FALSE]
    /\ cobj = [s \in Sessions |-> 0]
    /\ latest = [s \in Sessions |-> <<>>]
    /\ docs = [s \in Sessions |-> <<>>]
    /\ ranged = [s \in Sessions |-> FALSE]
    /\ result = [s \in Sessions |-> <<>>]
    /\ outcome = [s \in Sessions |-> "none"]
    /\ srcErr = [s \in Sessions |-> FALSE]
    /\ chgDuring = [s \in Sessions |-> FALSE]
    /\ chgAfter = [s \in Sessions |-> FALSE]
    /\ callEra = [s \in Sessions |-> 0]
    /\ live = 0
    /\ memo = [g \in 0..MaxGen |-> NoMemo]
    /\ refreshes = 0
    /\ prev = <<>>

\* ------------------------------------------------ the last returned call
\* prev is <<>> or <<[win, mage, since, ins, ref]>>: the window the last normal
\* return gave, the age of the memo behind it, the seconds since the return,
\* whether a record was appended since the return, and whether Refresh was
\* pressed since the call started.  The return is forgotten once no later
\* call can fall in its memo's validity period without an append, nor within
\* TTL seconds of it without a Refresh.
Older(n, d) == IF n + d > TTL THEN TTL ELSE n + d
Forget(p) ==
    IF p = <<>> THEN p
    ELSE IF (p[1].mage < TTL /\ ~p[1].ins) \/ (p[1].since < TTL /\ ~p[1].ref) THEN p
    ELSE <<>>
Returned(win, mage, era) ==
    <<[win |-> win, mage |-> mage, since |-> 0, ins |-> FALSE,
       ref |-> era # refreshes]>>

\* ------------------------------------------------------ the environment
\* The external producer appends a document.
ProducerAppend(d) ==
    /\ Len(coll) < MaxDocs
    /\ coll' = InsertDoc(coll, d)
    /\ chgDuring' = [s \in Sessions |-> chgDuring[s] \/ pc[s] = "range"]
    /\ chgAfter' = [s \in Sessions |->
                      chgAfter[s] \/ (pc[s] = "render" /\ outcome[s] = "computed")]
    /\ prev' = IF prev = <<>> THEN prev
               ELSE Forget(<<[prev[1] EXCEPT !.ins = TRUE]>>)
    /\ UNCHANGED <<fbVars, pc, btn, cobj, latest, docs, ranged, result, outcome,
                   srcErr, callEra, cacheVars>>

\* d seconds pass.
Tick(d) ==
    /\ memo' = [g \in 0..MaxGen |->
                  IF memo[g] = NoMemo THEN NoMemo
                  ELSE <<[memo[g][1] EXCEPT !.age = Older(@, d)]>>]
    /\ prev' = IF prev = <<>> THEN prev
               ELSE Forget(<<[prev[1] EXCEPT !.mage = Older(@, d),
                                             !.since = Older(@, d)]>>)
    /\ UNCHANGED <<fbVars, coll, pc, btn, callVars, live, refreshes>>

\* ------------------------------------------------------- a script run
\* The call of session s returns window win normally; mage is the age of the
\* memo that served it (0 when the call stored it itself), era the Refresh
\* count when the call started.
Returns(s, win, how, mage, era) ==
    /\ pc' = [pc EXCEPT ![s] = "render"]
    /\ result' = [result EXCEPT ![s] = win]
    /\ outcome' = [outcome EXCEPT ![s] = how]
    /\ prev' = Returned(win, mage, era)

\* A source query of session s's call raises.
Raises(s) ==
    IF OnSourceError = "raise"
    THEN /\ pc' = [pc EXCEPT ![s] = "failed"]
         /\ outcome' = [outcome EXCEPT ![s] = "error"]
         /\ memo' = Collect(memo, live, pc', cobj)
         /\ UNCHANGED <<result, prev>>
    ELSE /\ Returns(s, <<>>, "computed", 0, callEra[s])
         /\ memo' = Collect(WriteResult(memo, cobj[s], <<>>, callEra[s]),
                            live, pc', cobj)

\* The script from its top to the page: init_firebase's registry test and
\* secrets, db = firestore.client(), the sidebar's page.
AfterInit(page) == IF page = "Home" THEN "call" ELSE "idle"
Begin(registered, page) ==
    IF registered THEN AfterInit(page)
    ELSE IF secrets = "missing" THEN "stopped_nocreds"
    ELSE "init_app"

\* A session starts, or a widget interaction reruns the script; pressed: the
\* interaction is a press of the Refresh button the Home page shows.
StartRun(s, pressed, page) ==
    /\ pc[s] \in {"idle", "home", "failed", "stopped_nocreds", "stopped_initfail"}
    /\ pressed =>
         /\ pc[s] = "home"
         /\ page = "Home"
         /\ refreshes + Cardinality({u \in Sessions : btn[u]}) < MaxGen
    /\ pc' = [pc EXCEPT ![s] = Begin(apps, page)]
    /\ btn' = [btn EXCEPT ![s] = pressed]
    /\ NoCall(s)
    /\ UNCHANGED <<fbVars, coll, cacheVars, prev>>

\* init_firebase's second try block: Certificate and initialize_app; then
\* the script goes on to the page.
InitializeApp(s, page) ==
    /\ pc[s] = "init_app"
    /\ btn[s] => page = "Home"
    /\ IF secrets = "invalid"
       THEN /\ pc' = [pc EXCEPT ![s] = "stopped_initfail"]
            /\ UNCHANGED <<apps, initCalls>>
       ELSE /\ initCalls' = initCalls + 1
            /\ apps' = initialize_app(apps).apps
            /\ pc' = [pc EXCEPT ![s] =
                        IF initialize_app(apps).raised THEN "stopped_initfail"
                        ELSE AfterInit(page)]
    /\ UNCHANGED <<secrets, coll, btn, callVars, cacheVars, prev>>

\* fetch_firestore_data(COLLECTION) enters the cache_data wrapper: it takes
\* the live cache object and reads the memo.
CallFetch(s) ==
    /\ pc[s] = "call"
    /\ cobj' = [cobj EXCEPT ![s] = live]
    /\ callEra' = [callEra EXCEPT ![s] = refreshes]
    /\ IF Fresh(memo[live])
       THEN Returns(s, memo[live][1].win, "hit", memo[live][1].age, refreshes)
       ELSE /\ pc' = [pc EXCEPT ![s] = "lock"]
            /\ UNCHANGED <<result, outcome, prev>>
    /\ UNCHANGED <<fbVars, coll, btn, latest, docs, ranged, srcErr, chgDuring,
                   chgAfter, cacheVars>>

\* The wrapper takes the key's lock and reads the memo again.
AcquireLock(s) ==
    /\ pc[s] = "lock"
    /\ ~LockHeld(cobj[s])
    /\ IF Fresh(memo[cobj[s]])
       THEN Returns(s, memo[cobj[s]][1].win, "hit", memo[cobj[s]][1].age, callEra[s])
       ELSE /\ pc' = [pc EXCEPT ![s] = "top1"]
            /\ UNCHANGED <<result, outcome, prev>>
    /\ memo' = Collect(memo, live, pc', cobj)
    /\ UNCHANGED <<fbVars, coll, btn, cobj, latest, docs, ranged, srcErr,
                   chgDuring, chgAfter, callEra, live, refreshes>>

\* The function body up to the range query: the top-1 query and its tests.
QueryLatest(s, ok) ==
    /\ pc[s] = "top1"
    /\ IF ~ok
       THEN /\ srcErr' = [srcErr EXCEPT ![s] = TRUE]
            /\ Raises(s)
            /\ UNCHANGED latest
       ELSE /\ latest' = [latest EXCEPT ![s] = Top1Desc(coll)]
            /\ UNCHANGED srcErr
            /\ IF AfterTop1(Top1Desc(coll)) = "empty"
               THEN /\ Returns(s, <<>>, "computed", 0, callEra[s])
                    /\ memo' = Collect(WriteResult(memo, cobj[s], <<>>, callEra[s]),
                                       live, pc', cobj)
               ELSE /\ pc' = [pc EXCEPT ![s] = "range"]
                    /\ UNCHANGED <<result, outcome, prev, memo>>
    /\ UNCHANGED <<fbVars, coll, btn, cobj, docs, ranged, chgDuring, chgAfter,
                   callEra, live, refreshes>>

\* The rest of the function body: the range query, the loop over docs, and
\* the wrapper storing the frame and releasing the lock.
QueryRange(s, ok) ==
    /\ pc[s] = "range"
    /\ IF ~ok
       THEN /\ srcErr' = [srcErr EXCEPT ![s] = TRUE]
            /\ Raises(s)
            /\ UNCHANGED <<docs, ranged>>
       ELSE LET ds == RangeAsc(coll, start_ts(latest[s][1].ts))
            IN  /\ docs' = [docs EXCEPT ![s] = ds]
                /\ ranged' = [ranged EXCEPT ![s] = TRUE]
                /\ UNCHANGED srcErr
                /\ Returns(s, FilterRows(ds), "computed", 0, callEra[s])
                /\ memo' = Collect(WriteResult(memo, cobj[s], FilterRows(ds),
                                                   callEra[s]),
                                   live, pc', cobj)
    /\ UNCHANGED <<fbVars, coll, btn, cobj, latest, chgDuring, chgAfter,
                   callEra, live, refreshes>>

\* The Home page after the call: the chart or the warning, then the Refresh
\* button: pressed, it clears the caches and reruns the script.
RenderHome(s) ==
    /\ pc[s] = "render"
    /\ IF btn[s]
       THEN /\ live' = ClearAll(live)
            /\ refreshes' = refreshes + 1
            /\ pc' = [pc EXCEPT ![s] = Begin(apps, "Home")]
            /\ prev' = IF prev = <<>> THEN prev
                       ELSE Forget(<<[prev[1] EXCEPT !.ref = TRUE]>>)
       ELSE /\ pc' = [pc EXCEPT ![s] = "home"]
            /\ UNCHANGED <<live, refreshes, prev>>
    /\ btn' = [btn EXCEPT ![s] = FALSE]
    /\ NoCall(s)
    /\ memo' = Collect(memo, live', pc', cobj')
    /\ UNCHANGED <<fbVars, coll>>

\* --------------------------------------------------- the specifications
Pages == {"Home", "Upload", "About"}
TickSteps == {TTL - 1, TTL}

\* All sessions, the clock, and a producer writing well-formed documents of
\* one timestamp (the windows then differ in their length).
Next ==
    \/ \E d \in NewestDocuments : ProducerAppend(d)
    \/ \E d \in TickSteps : Tick(d)
    \/ \E s \in Sessions, pressed \in BOOLEAN, page \in Pages :
          StartRun(s, pressed, page)
    \/ \E s \in Sessions, page \in Pages : InitializeApp(s, page)
    \/ \E s \in Sessions : CallFetch(s)
    \/ \E s \in Sessions : AcquireLock(s)
    \/ \E s \in Sessions, ok \in BOOLEAN : QueryLatest(s, ok)
    \/ \E s \in Sessions, ok \in BOOLEAN : QueryRange(s, ok)
    \/ \E s \in Sessions : RenderHome(s)

Spec == Init /\ [][Next]_vars

\* One session, no clock, and a producer writing any document.
NextFetch ==
    \/ \E d \in Documents : ProducerAppend(d)
    \/ \E pressed \in BOOLEAN, page \in Pages : StartRun("s1", pressed, page)
    \/ \E page \in Pages : InitializeApp("s1", page)
    \/ CallFetch("s1")
    \/ AcquireLock("s1")
    \/ \E ok \in BOOLEAN : QueryLatest("s1", ok)
    \/ \E ok \in BOOLEAN : QueryRange("s1", ok)
    \/ RenderHome("s1")

SpecFetch == Init /\ [][NextFetch]_vars


\* ============================================================ the claims
\* The call of session s ran the function body and returned its frame.
Computed(s) == pc[s] = "render" /\ outcome[s] = "computed"

\* The timestamps of collection c, and its maximum (none when there is none).
TsOf(c) == {c[i].ts : i \in 1..Len(c)} \ {NoTs}
LatestOf(c) == {t \in TsOf(c) : \A u \in TsOf(c) : u <= t}

\* The documents of c a well-formed window anchored at its maximum holds.
InWindow(c) ==
    {i \in 1..Len(c) :
        /\ c[i].ts # NoTs
        /\ c[i].v # NoV
        /\ \E L \in LatestOf(c) : L - W <= c[i].ts /\ c[i].ts <= L}

Row(d) == [timestamp |-> d.ts, voltage |-> d.v]
Count(q, x) == Cardinality({i \in 1..Len(q) : q[i] = x})
Ascending(r) ==
    \A i \in 1..Len(r) : \A j \in i..Len(r) : r[i].timestamp <= r[j].timestamp

\* C1: every timestamp t of a returned window satisfies
\* latest - 5s <= t <= latest, latest being the maximum timestamp of the
\* collection at query time, also when the producer appends between the two
\* queries.  The maximum is read at either query: the one the top-1 query
\* returned, or the one in the collection at the range query (the collection
\* as it is now, while nothing was appended since).
C1_WindowSpansFiveSeconds ==
    \A s \in Sessions :
        (Computed(s) /\ ~chgAfter[s] /\ result[s] # <<>>) =>
            \E L \in {latest[s][1].ts} \cup LatestOf(coll) :
                \A i \in 1..Len(result[s]) :
                    /\ L - W <= result[s][i].timestamp
                    /\ result[s][i].timestamp <= L

\* C2: when the collection does not change during the call, an uncached call
\* returns exactly the records that have a timestamp and a voltage and lie in
\* [latest - 5s, latest], in non-decreasing timestamp order; latest is the
\* maximum timestamp over all records, a record without voltage included.
C2_ExactWindow ==
    \A s \in Sessions :
        (Computed(s) /\ ~chgDuring[s] /\ ~chgAfter[s]) =>
            /\ Len(result[s]) = Cardinality(InWindow(coll))
            /\ \A d \in Documents :
                   Count(result[s], Row(d)) =
                       Cardinality({i \in InWindow(coll) : coll[i] = d})
            /\ Ascending(result[s])

\* C2's case: a record without voltage is the latest, and the record exactly
\* five seconds before it is the one returned.
C2_Witness ==
    \E s \in Sessions :
        /\ Computed(s) /\ ~chgDuring[s] /\ ~chgAfter[s]
        /\ Len(coll) = 2
        /\ coll[2].v = NoV
        /\ coll[2].ts - coll[1].ts = W
        /\ result[s] = <<Row(coll[1])>>

\* C3: a call one of whose source queries failed ends with the error, which
\* the Home page never takes for a window: the run stops at the call instead
\* of rendering, and no frame is returned.
C3_FailurePropagates ==
    \A s \in Sessions :
        srcErr[s] => (pc[s] = "failed" /\ outcome[s] = "error" /\ result[s] = <<>>)

\* C3's case: the range query failed after the top-1 query found a record.
C3_Witness ==
    \E s \in Sessions : srcErr[s] /\ pc[s] = "failed" /\ latest[s] # <<>>

\* C4: a call whose top-1 query finds the collection empty returns the empty
\* window normally and never gets to the range query.
C4_EmptyCollection ==
    \A s \in Sessions :
        (pc[s] \in {"range", "render"} /\ outcome[s] # "hit" /\ latest[s] = <<>>) =>
            /\ Computed(s)
            /\ result[s] = <<>>
            /\ ~ranged[s]
            /\ docs[s] = <<>>

\* C4's case: the call returned on an empty collection.
C4_Witness ==
    \E s \in Sessions :
        Computed(s) /\ latest[s] = <<>> /\ coll = <<>> /\ result[s] = <<>>

\* C5: of the records the range query returned, exactly those with both a
\* timestamp and a voltage are in the result, in the query's order; a record
\* missing a field is skipped, and the call still returns normally.
C5_MalformedSkipped ==
    \A s \in Sessions :
        ranged[s] =>
            /\ Computed(s)
            /\ \A d \in Documents :
                   Count(result[s], Row(d)) =
                       IF d.ts # NoTs /\ d.v # NoV THEN Count(docs[s], d) ELSE 0
            /\ Len(result[s]) <= Len(docs[s])
            /\ Ascending(result[s])

\* C5's case: the range query returned a record without voltage beside a
\* well-formed one, which is in the result.
C5_Witness ==
    \E s \in Sessions :
        /\ ranged[s]
        /\ \E i \in 1..Len(docs[s]) : docs[s][i].v = NoV
        /\ result[s] # <<>>


\* The call of session s returns normally in this step.
ReturnsNow(s) == pc[s] \in {"call", "lock", "top1", "range"} /\ pc'[s] = "render"

\* C6: a call that starts after a Refresh never returns a window memoized
\* before it: the memo a call returns was stored by a call that started, and
\* so queried the source, after the last Refresh that preceded the returning
\* call.  The first call after a Refresh finds no such memo and queries.
C6_RefreshRequeries ==
    [][/\ refreshes' # refreshes => ~Fresh(memo'[live'])
       /\ \A s \in Sessions :
             (ReturnsNow(s) /\ outcome'[s] = "hit") =>
                 /\ memo[cobj'[s]] # NoMemo
                 /\ memo[cobj'[s]][1].era >= callEra'[s]]_vars

\* C6's case: within a memo's validity period a Refresh was pressed, and the
\* call of the rerun queried the source and stored a new memo.
C6_Witness ==
    \E s \in Sessions :
        /\ Computed(s)
        /\ callEra[s] = refreshes
        /\ refreshes >= 1
        /\ Fresh(memo[live])
        /\ memo[live][1].era = refreshes

\* C7 as stated: a call that returns while the memo behind the previous
\* call's window is still within its 60 seconds, no record appended between
\* the two, returns the window the previous call returned.
C7_TwoCallsIdentical ==
    [][\A s \in Sessions :
          (ReturnsNow(s) /\ prev # <<>> /\ prev[1].mage < TTL /\ ~prev[1].ins) =>
              result'[s] = prev[1].win]_vars

\* C7 amended: the same, provided no Refresh was pressed from the start of
\* either call to the return of the second.
C7_TwoCallsIdenticalNoRefresh ==
    [][\A s \in Sessions :
          (/\ ReturnsNow(s)
           /\ prev # <<>>
           /\ prev[1].mage < TTL
           /\ ~prev[1].ins
           /\ ~prev[1].ref
           /\ callEra'[s] = refreshes) =>
              result'[s] = prev[1].win]_vars

\* C7's case: one call stored the window, and 59 seconds later, with no
\* append nor Refresh in between, another call returned the same window.
C7_Witness ==
    \E s \in Sessions, u \in Sessions :
        /\ Computed(s) /\ ~chgAfter[s]
        /\ pc[u] = "render" /\ outcome[u] = "hit"
        /\ result[u] = result[s]
        /\ result[s] # <<>>
        /\ prev # <<>>
        /\ prev[1].mage = TTL - 1
        /\ ~prev[1].ref

\* C8: with valid credentials initialize_app is called once, and no run stops
\* with "Failed to initialize Firebase".
C8_InitializedOnce ==
    secrets = "valid" =>
        /\ initCalls <= 1
        /\ \A s \in Sessions : pc[s] # "stopped_initfail"

\* C9: at most one call is between its top-1 query and its return at a time.
C9_SingleFlight ==
    Cardinality({s \in Sessions : pc[s] \in {"top1", "range"}}) <= 1

\* C10 as stated: a call that returns less than 60 seconds after a call
\* returned normally, no Refresh since either call started, returns that
\* call's window from the memo, without querying.
C10_MemoServesSixtySeconds ==
    [][\A s \in Sessions :
          (/\ ReturnsNow(s)
           /\ prev # <<>>
           /\ prev[1].since < TTL
           /\ ~prev[1].ref
           /\ callEra'[s] = refreshes) =>
              (outcome'[s] = "hit" /\ result'[s] = prev[1].win)]_vars

\* C10 amended: the 60 seconds run from the moment the returned window was
\* stored in the cache, not from the return of the call that read it.
C10_MemoServesUntilExpiry ==
    [][\A s \in Sessions :
          (/\ ReturnsNow(s)
           /\ prev # <<>>
           /\ prev[1].mage < TTL
           /\ ~prev[1].ref
           /\ callEra'[s] = refreshes) =>
              (outcome'[s] = "hit" /\ result'[s] = prev[1].win)]_vars

\* C10's case: the empty window was memoized, the producer appended since,
\* and a call returned the memoized empty window.
C10_Witness ==
    \E s \in Sessions :
        /\ pc[s] = "render"
        /\ outcome[s] = "hit"
        /\ result[s] = <<>>
        /\ coll # <<>>

====
